---- MODULE Spec2Model ----
(***************************************************************************)
(* Avatar generation service: landmarks -> face mesh -> texture -> GLB.    *)
(*                                                                         *)
(* Modelled from src/services/avatar-generation-service/main.py.           *)
(*                                                                         *)
(* Numbers.  Landmarks are pixel positions with integer coordinates in a   *)
(* square image of ImageSize x ImageSize pixels.  A canonical-space float  *)
(* k / ImageSize is represented by the integer k; with ImageSize a power   *)
(* of two every value the code computes from such landmarks is an exact    *)
(* binary float, so the integer arithmetic below is the code's arithmetic. *)
(* Byte strings are represented by their lengths.                          *)
(***************************************************************************)
EXTENDS Integers, Sequences, FiniteSets, TLC

VARIABLES
    pc,           \* position of the request in generate_avatar / generate_avatar_glb
    landmarks,    \* landmarks_3d: sequence of [x, y, z] pixel-space records
    mesh_data,    \* result of generate_face_mesh, or NoMesh
    tri_failed,   \* TRUE when spatial.Delaunay raised (line 454)
    fs,           \* storage directory: file name -> size in bytes, or Absent
    glb,          \* what generate_avatar_glb has built in memory, or NoGlb
    error,        \* the exception that was raised, or "none"
    avatar_jobs,  \* avatar_jobs[avatar_id]: "none", "completed" or "failed"
    tts,          \* outcome of a /tts/with-visemes request
    text,         \* request.text of that request
    alignment,    \* data["alignment"] of the provider's response
    visemes,      \* "visemes" of the response
    duration_ms,  \* "duration_ms" of the response
    reqs,         \* concurrent requests: avatar_id -> [pc, landmarks]
    store,        \* their storage directory: <<avatar_id, file>> -> size
    jobs,         \* their avatar_jobs: avatar_id -> status
    user_voices,         \* user_voices: user_id -> voice id, or NoVoice
    voice_cloning_jobs,  \* voice_cloning_jobs: job_id -> job record
    history,             \* clones that succeeded and deletes, oldest first
    requests_made,       \* clone and delete requests made so far
    tts_voice            \* the voice of the last TTS request

avatar_vars ==
    <<pc, landmarks, mesh_data, tri_failed, fs, glb, error, avatar_jobs>>
voice_vars == <<tts, text, alignment, visemes, duration_ms>>
conc_vars == <<reqs, store, jobs>>
clone_vars ==
    <<user_voices, voice_cloning_jobs, history, requests_made, tts_voice>>
vars == <<avatar_vars, voice_vars, conc_vars, clone_vars>>

(***************************************************************************)
(* Bounds of the model.                                                    *)
(***************************************************************************)
MaxLandmarks == 4   \* landmark lists of 0 .. MaxLandmarks entries
MaxTexture == 4     \* texture files of PngMinLen + (1 .. MaxTexture) bytes
MaxVerts == 3       \* direct calls: arrays of 0 .. MaxVerts entries
MaxFaces == 2       \* direct calls: 0 .. MaxFaces faces
MaxText == 3        \* request texts of 0 .. MaxText characters
MaxConcurrent == 2  \* concurrent generate_avatar requests
MaxRequests == 3    \* clone_voice and delete_user_voice requests

\* h, w = image_shape[:2]: the (square) input image.
ImageSize == 4

\* The smallest file cv2.imwrite can produce for a PNG: signature (8),
\* IHDR (25), one IDAT (12 + data), IEND (12).
PngMinLen == 57

Absent == -1
NoMesh == [vertices |-> <<>>, faces |-> <<>>, uvs |-> <<>>, normals |-> <<>>,
           returned |-> FALSE]
NoGlb == [built |-> FALSE]

\* Pixel positions (x, y, z) the landmark detector may report: three on the
\* image diagonal (collinear in the image plane, the last at another depth)
\* and two off-diagonal corners, which with (0,0) and (2,2) form a square
\* (four cocircular points).
LandmarkPoints ==
    { [x |-> 0, y |-> 0, z |-> 0], [x |-> 1, y |-> 1, z |-> 0],
      [x |-> 2, y |-> 2, z |-> 1],
      [x |-> 2, y |-> 0, z |-> 0], [x |-> 0, y |-> 2, z |-> 0] }

SeqsUpTo(S, n) == UNION { [1..k -> S] : k \in 0..n }

RECURSIVE SumSeq(_)
SumSeq(s) == IF s = <<>> THEN 0 ELSE Head(s) + SumSeq(Tail(s))

(***************************************************************************)
(* generate_face_mesh, lines 429-475.                                      *)
(***************************************************************************)

\* Lines 442-445: x = (lm.x / w) * 2 - 1, y = -((lm.y / h) * 2 - 1),
\* z = lm.z / w, in units of 1 / ImageSize.
NormalizeLandmark(lm, w, h) ==
    << 2 * lm.x - w, -(2 * lm.y - h), lm.z >>

\* The vertices in reverse landmark order (each new vertex put in front).
RECURSIVE BuildVerticesReversed(_, _, _, _)
BuildVerticesReversed(lms, w, h, acc) ==
    IF lms = <<>> THEN acc
    ELSE BuildVerticesReversed(Tail(lms), w, h,
                               <<NormalizeLandmark(Head(lms), w, h)>> \o acc)

\* Lines 439-445: the loop appending one vertex per landmark.
RECURSIVE BuildVertices(_, _, _, _)
BuildVertices(lms, w, h, acc) ==
    IF lms = <<>> THEN acc
    ELSE BuildVertices(Tail(lms), w, h,
                       Append(acc, NormalizeLandmark(Head(lms), w, h)))

\* Lines 463-465: u = lm.x / w, v = 1.0 - lm.y / h, in units of 1 / ImageSize.
LandmarkUV(lm, w, h) == << lm.x, h - lm.y >>

\* Lines 461-465: the loop appending one uv per landmark.
RECURSIVE BuildUVs(_, _, _, _)
BuildUVs(lms, w, h, acc) ==
    IF lms = <<>> THEN acc
    ELSE BuildUVs(Tail(lms), w, h, Append(acc, LandmarkUV(Head(lms), w, h)))

\* Lines 478-484: for i in range(1, num_vertices - 1): faces.append([0, i, i + 1]).
RECURSIVE FallbackLoop(_, _, _)
FallbackLoop(i, num_vertices, faces) ==
    IF i >= num_vertices - 1 THEN faces
    ELSE FallbackLoop(i + 1, num_vertices, Append(faces, <<0, i, i + 1>>))

\* range(1, num_vertices - 2): the last triangle of the fan is missing.
FallbackFacesOneShort(num_vertices) ==
    FallbackLoop(1, num_vertices - 1, <<>>)

\* A strip (i - 1, i, i + 1) instead of a fan around vertex 0.
FallbackFacesStrip(num_vertices) ==
    [i \in 1..(num_vertices - 2) |-> <<i - 1, i, i + 1>>]

generate_fallback_faces(num_vertices) == FallbackLoop(1, num_vertices, <<>>)

(***************************************************************************)
(* spatial.Delaunay(points_2d), line 454.  Vertex indices are 0-based as   *)
(* in the code; vertex i is verts[i + 1].                                  *)
(***************************************************************************)
Pt(verts, i) == verts[i + 1]

\* Twice the signed area of (p, q, r): > 0 when counterclockwise.
Orient(p, q, r) ==
    (q[1] - p[1]) * (r[2] - p[2]) - (q[2] - p[2]) * (r[1] - p[1])

\* For a counterclockwise (a, b, c): > 0 iff d is strictly inside its circumcircle.
InCircle(a, b, c, d) ==
    LET ax == a[1] - d[1]  ay == a[2] - d[2]
        bx == b[1] - d[1]  by == b[2] - d[2]
        cx == c[1] - d[1]  cy == c[2] - d[2]
        a2 == ax * ax + ay * ay
        b2 == bx * bx + by * by
        c2 == cx * cx + cy * cy
    IN ax * (by * c2 - b2 * cy) - ay * (bx * c2 - b2 * cx)
       + a2 * (bx * cy - by * cx)

Indices(verts) == 0 .. (Len(verts) - 1)

\* Qhull cannot build an initial simplex: fewer than three points, or all
\* points on one line (coincident points included).
DelaunayRaises(verts) ==
    \/ Len(verts) < 3
    \/ \A i, j, k \in Indices(verts) :
          Orient(Pt(verts, i), Pt(verts, j), Pt(verts, k)) = 0

\* The triangles a Delaunay triangulation may contain: counterclockwise
\* (the orientation scipy documents for 2-D simplices), non-degenerate,
\* with no input point strictly inside the circumcircle.  Each is listed
\* once, starting at its smallest index.
DelaunayCandidates(verts) ==
    { t \in Indices(verts) \X Indices(verts) \X Indices(verts) :
        /\ t[1] < t[2] /\ t[1] < t[3] /\ t[2] # t[3]
        /\ Orient(Pt(verts, t[1]), Pt(verts, t[2]), Pt(verts, t[3])) > 0
        /\ \A m \in Indices(verts) :
              InCircle(Pt(verts, t[1]), Pt(verts, t[2]), Pt(verts, t[3]),
                       Pt(verts, m)) <= 0 }

\* Some edge of s has all of t on its outer side.
SeparatedBy(verts, s, t) ==
    \E e \in { <<s[1], s[2]>>, <<s[2], s[3]>>, <<s[3], s[1]>> } :
        \A m \in { t[1], t[2], t[3] } :
            Orient(Pt(verts, e[1]), Pt(verts, e[2]), Pt(verts, m)) <= 0

InteriorsDisjoint(verts, s, t) ==
    SeparatedBy(verts, s, t) \/ SeparatedBy(verts, t, s)

\* Of coincident input points Qhull keeps one; the others are in no simplex.
UsesOnePointPerPosition(verts, T) ==
    LET used == UNION { { t[1], t[2], t[3] } : t \in T }
    IN \A i, j \in used :
          (Pt(verts, i)[1] = Pt(verts, j)[1] /\ Pt(verts, i)[2] = Pt(verts, j)[2])
             => i = j

IsPartialTriangulation(verts, T) ==
    /\ \A s, t \in T : s # t => InteriorsDisjoint(verts, s, t)
    /\ UsesOnePointPerPosition(verts, T)

\* The triangulations Qhull may return: the maximal sets of candidates with
\* pairwise disjoint interiors (several when four or more points are cocircular).
DelaunayTriangulations(verts) ==
    LET cand == DelaunayCandidates(verts)
    IN { T \in SUBSET cand :
           /\ IsPartialTriangulation(verts, T)
           /\ \A c \in cand \ T : ~IsPartialTriangulation(verts, T \cup {c}) }

FaceLess(s, t) ==
    \/ s[1] < t[1]
    \/ s[1] = t[1] /\ s[2] < t[2]
    \/ s[1] = t[1] /\ s[2] = t[2] /\ s[3] < t[3]

\* tri.simplices.tolist(), line 455: the triangles as a list.  The order of
\* the list is Qhull's; the model lists them in index order.
RECURSIVE SimplicesToList(_)
SimplicesToList(T) ==
    IF T = {} THEN <<>>
    ELSE LET first == CHOOSE t \in T : \A u \in T \ {t} : FaceLess(t, u)
         IN <<first>> \o SimplicesToList(T \ {first})

(***************************************************************************)
(* calculate_vertex_normals, lines 487-510.                                *)
(***************************************************************************)
Sub3(a, b) == << a[1] - b[1], a[2] - b[2], a[3] - b[3] >>
Add3(a, b) == << a[1] + b[1], a[2] + b[2], a[3] + b[3] >>
Cross(a, b) ==
    << a[2] * b[3] - a[3] * b[2], a[3] * b[1] - a[1] * b[3],
       a[1] * b[2] - a[2] * b[1] >>
Norm2(a) == a[1] * a[1] + a[2] * a[2] + a[3] * a[3]

\* Lines 494-499.
FaceNormal(verts, face) ==
    Cross(Sub3(Pt(verts, face[2]), Pt(verts, face[1])),
          Sub3(Pt(verts, face[3]), Pt(verts, face[1])))

\* Lines 502-503: for idx in face: normals[idx] += face_normal.
RECURSIVE AddToVertices(_, _, _)
AddToVertices(normals, idxs, face_normal) ==
    IF idxs = <<>> THEN normals
    ELSE AddToVertices(
            [normals EXCEPT ![Head(idxs) + 1] = Add3(@, face_normal)],
            Tail(idxs), face_normal)

\* Lines 491-503: the loop over the faces.
RECURSIVE AccumulateNormals(_, _, _)
AccumulateNormals(verts, faces, normals) ==
    IF faces = <<>> THEN normals
    ELSE IF Len(Head(faces)) < 3
         THEN AccumulateNormals(verts, Tail(faces), normals)
         ELSE AccumulateNormals(verts, Tail(faces),
                 AddToVertices(normals, Head(faces),
                               FaceNormal(verts, Head(faces))))

\* Without line 507 a zero sum would be divided by a zero norm.
NormalizeWithoutZeroGuard(v) ==
    [num |-> v, den2 |-> Norm2(v)]

\* Lines 506-508: norms = |normals|; norms[norms == 0] = 1; normals / norms.
\* The quotient v / sqrt(d2) is kept as the pair [num |-> v, den2 |-> d2].
NormalizeNormal(v) ==
    [num |-> v, den2 |-> IF Norm2(v) = 0 THEN 1 ELSE Norm2(v)]

\* Every sum divided by its own norm, zero or not.
NormalsDividedByOwnNorm(verts, faces) ==
    LET zeros == [i \in 1..Len(verts) |-> <<0, 0, 0>>]
        sums == AccumulateNormals(verts, faces, zeros)
    IN [i \in 1..Len(verts) |-> [num |-> sums[i], den2 |-> Norm2(sums[i])]]

calculate_vertex_normals(verts, faces) ==
    LET zeros == [i \in 1..Len(verts) |-> <<0, 0, 0>>]
        sums == AccumulateNormals(verts, faces, zeros)
    IN [i \in 1..Len(verts) |-> NormalizeNormal(sums[i])]

\* Lines 470-475: the returned dict.
MeshOf(verts, faces, lms, w, h) ==
    [vertices |-> verts,
     faces |-> faces,
     uvs |-> BuildUVs(lms, w, h, <<>>),
     normals |-> calculate_vertex_normals(verts, faces),
     returned |-> TRUE]

\* The exception classes raised in this model; all derive from Exception
\* (QhullError from RuntimeError, cv2.error and struct.error directly).
ExceptionClasses ==
    {"QhullError", "IndexError", "cv2.error", "FileNotFoundError", "struct.error",
     "OSError"}

\* A narrower handler, except ValueError, would let QhullError through.
CatchesOnlyValueError(exc) == exc = "ValueError"

\* Line 456: except Exception as e.
FallbackHandlerCatches(exc) == exc \in ExceptionClasses

\* generate_face_mesh(landmarks_3d, img_array.shape), called at line 216.
GenerateFaceMesh ==
    /\ pc = "start"
    /\ LET verts == BuildVertices(landmarks, ImageSize, ImageSize, <<>>)
       IN IF Len(verts) = 0
          THEN \* np.array([]) is 1-D: vertices[:, :2] raises IndexError (line 450)
               /\ pc' = "raised"
               /\ error' = "IndexError"
               /\ UNCHANGED <<mesh_data, tri_failed>>
          ELSE IF DelaunayRaises(verts)
          THEN IF FallbackHandlerCatches("QhullError")
               THEN /\ tri_failed' = TRUE
                    /\ mesh_data' =
                          MeshOf(verts, generate_fallback_faces(Len(verts)),
                                 landmarks, ImageSize, ImageSize)
                    /\ pc' = "meshed"
                    /\ UNCHANGED error
               ELSE /\ tri_failed' = TRUE
                    /\ pc' = "raised"
                    /\ error' = "QhullError"
                    /\ UNCHANGED mesh_data
          ELSE /\ \E T \in DelaunayTriangulations(verts) :
                     mesh_data' = MeshOf(verts, SimplicesToList(T),
                                         landmarks, ImageSize, ImageSize)
               /\ pc' = "meshed"
               /\ UNCHANGED <<tri_failed, error>>
    /\ UNCHANGED <<landmarks, fs, glb, avatar_jobs>>
    /\ UNCHANGED <<voice_vars, conc_vars, clone_vars>>

Files == {"glb", "texture", "thumb"}

\* The sizes cv2.imwrite may give the texture PNG (line 547).
PngLengths == { PngMinLen + k : k \in 1..MaxTexture }

(***************************************************************************)
(* extract_face_texture, lines 513-549.                                    *)
(***************************************************************************)
SetMin(S) == CHOOSE m \in S : \A e \in S : m <= e
SetMax(S) == CHOOSE m \in S : \A e \in S : m >= e
Min2(a, b) == IF a < b THEN a ELSE b
Max2(a, b) == IF a > b THEN a ELSE b

\* Lines 525-536: the padded bounding box, clamped to the image.
\* int((x_max - x_min) * 0.2) is (2 * d) \div 10 for the d >= 0 of the model.
CropBox(lms, w, h) ==
    LET xs == { lms[i].x : i \in DOMAIN lms }
        ys == { lms[i].y : i \in DOMAIN lms }
        padding == (2 * (SetMax(xs) - SetMin(xs))) \div 10
    IN [x_min |-> Max2(0, SetMin(xs) - padding),
        x_max |-> Min2(w, SetMax(xs) + padding),
        y_min |-> Max2(0, SetMin(ys) - padding),
        y_max |-> Min2(h, SetMax(ys) + padding)]

\* image[y_min:y_max, x_min:x_max] has no pixel.
EmptyCrop(box) == box.x_min >= box.x_max \/ box.y_min >= box.y_max

\* extract_face_texture(img_array, landmarks_3d, avatar_id), called at line 219.
ExtractFaceTexture ==
    /\ pc = "meshed"
    /\ IF EmptyCrop(CropBox(landmarks, ImageSize, ImageSize))
       THEN \* cv2.resize of an empty region raises cv2.error (line 540)
            /\ pc' = "raised"
            /\ error' = "cv2.error"
            /\ UNCHANGED fs
       ELSE /\ \E size \in PngLengths : fs' = [fs EXCEPT !["texture"] = size]
            /\ pc' = "glb_call"
            /\ UNCHANGED error
    /\ UNCHANGED <<landmarks, mesh_data, tri_failed, glb, avatar_jobs>>
    /\ UNCHANGED <<voice_vars, conc_vars, clone_vars>>

(***************************************************************************)
(* generate_avatar_glb, lines 552-717.                                     *)
(***************************************************************************)

\* The compact JSON of the glTF scaffold (lines 570-601, 667-685, 688)
\* without the text of its 27 numbers that depend on the mesh.
GltfFixedLen == 1165

\* Largest value struct.pack('H', idx) accepts.
MaxUShort == 65535

\* struct.calcsize of the formats the function packs with.
StructSize(fmt) ==
    CASE fmt = "fff" -> 12
      [] fmt = "ff" -> 8
      [] fmt = "H" -> 2
      [] fmt = "I" -> 4

\* No padding at all.
NoPadding(len) == len

\* Lines 620-621 (and 631, 642, 656, 663, 691): while len % 4 != 0: append.
RECURSIVE PadTo4(_)
PadTo4(len) == IF len % 4 = 0 THEN len ELSE PadTo4(len + 1)

\* One item packed however many there are.
PackedLenOfOneItem(items, fmt) == StructSize(fmt)

\* for item in items: data.extend(struct.pack(fmt, *item)): len(data).
RECURSIVE PackedLen(_, _)
PackedLen(items, fmt) ==
    IF items = <<>> THEN 0
    ELSE StructSize(fmt) + PackedLen(Tail(items), fmt)

\* One index counted per face instead of one per packed index.
FaceCount(faces) == Len(faces)

\* Lines 648-651: index_count over all faces.
RECURSIVE IndexCount(_)
IndexCount(faces) ==
    IF faces = <<>> THEN 0 ELSE Len(Head(faces)) + IndexCount(Tail(faces))

\* The offset taken after the section was appended instead of before.
AppendSectionOffsetAfter(buffer_len, data_len) ==
    [byteOffset |-> buffer_len + data_len,
     byteLength |-> data_len,
     buffer_len |-> PadTo4(buffer_len + data_len)]

\* Lines 616-621: offset = len(buffer_data); extend; pad.
AppendSection(buffer_len, data_len) ==
    [byteOffset |-> buffer_len,
     byteLength |-> data_len,
     buffer_len |-> PadTo4(buffer_len + data_len)]

\* The first vertex's coordinate taken as the bound, the others not compared.
AxisOfFirstVertex(verts, axis, acc) ==
    IF verts = <<>> THEN acc
    ELSE [inf |-> FALSE, val |-> Head(verts)[axis]]

\* Lines 608-613: the running minimum / maximum of one axis, from +-inf.
RECURSIVE AxisMin(_, _, _)
AxisMin(verts, axis, acc) ==
    IF verts = <<>> THEN acc
    ELSE LET v == Head(verts)[axis]
         IN AxisMin(Tail(verts), axis,
                    IF acc.inf \/ v < acc.val
                    THEN [inf |-> FALSE, val |-> v] ELSE acc)

RECURSIVE AxisMax(_, _, _)
AxisMax(verts, axis, acc) ==
    IF verts = <<>> THEN acc
    ELSE LET v == Head(verts)[axis]
         IN AxisMax(Tail(verts), axis,
                    IF acc.inf \/ v > acc.val
                    THEN [inf |-> FALSE, val |-> v] ELSE acc)

Infinite == [inf |-> TRUE, val |-> 0]

\* Number of decimal digits of n >= 0, as json.dumps writes an int.
RECURSIVE Digits(_)
Digits(n) == IF n < 10 THEN 1 ELSE 1 + Digits(n \div 10)

\* The text json.dumps writes for an int n >= 0: its decimal digits, the
\* most significant first (line 688).
RECURSIVE JsonInt(_)
JsonInt(n) ==
    IF n < 10 THEN << n >> ELSE Append(JsonInt(n \div 10), n % 10)

\* What a JSON parser reads from such a text.
RECURSIVE ParseJsonInt(_)
ParseJsonInt(ds) ==
    IF ds = <<>> THEN 0
    ELSE 10 * ParseJsonInt(SubSeq(ds, 1, Len(ds) - 1)) + ds[Len(ds)]

\* Length of the text json.dumps writes for the float k / ImageSize:
\* "Infinity" / "-Infinity" for a bound of no vertex; else sign, integer
\* part and fraction: ".0" or ".5" for a multiple of 1/2, else ".25" or
\* ".75" (the values are quarters).  A zero on the y axis is the -0.0 that
\* the negation of line 443 produces.
JsonFloatLen(f, axis, is_max) ==
    IF f.inf THEN (IF is_max THEN 9 ELSE 8)
    ELSE LET mag == IF f.val < 0 THEN -f.val ELSE f.val
             sign == IF f.val < 0 \/ (f.val = 0 /\ axis = 2) THEN 1 ELSE 0
             frac == IF (2 * mag) % ImageSize = 0 THEN 2 ELSE 3
         IN sign + Digits(mag \div ImageSize) + frac

\* The two 8-byte chunk headers left out of the total.
TotalLengthWithoutChunkHeaders(json_len, buffer_len) ==
    12 + json_len + buffer_len

\* Line 698.
TotalLength(json_len, buffer_len) == 12 + 8 + json_len + 8 + buffer_len

\* struct.pack('H', idx) for 0 <= idx <= 65535: the two bytes of idx, the
\* low byte first (line 650).
PackUShort(idx) == << idx % 256, (idx \div 256) % 256 >>

\* Lines 648-650: indices_data, the packed indices of all faces in order.
RECURSIVE PackIndices(_)
PackIndices(idxs) ==
    IF idxs = <<>> THEN <<>>
    ELSE PackUShort(Head(idxs)) \o PackIndices(Tail(idxs))

\* for face in faces: for idx in face: the indices in the order packed.
RECURSIVE FlattenFaces(_)
FlattenFaces(faces) ==
    IF faces = <<>> THEN <<>> ELSE Head(faces) \o FlattenFaces(Tail(faces))

\* b' ', the byte line 692 appends, and the 0 that line 621 appends.
SpaceByte == 32
NulByte == 0

\* The bytes appended by a loop while len % 4 != 0: append(byte).
RECURSIVE PadBytes(_, _)
PadBytes(len, byte) ==
    IF len % 4 = 0 THEN <<>> ELSE << byte >> \o PadBytes(len + 1, byte)

\* The JSON padded with the zero bytes of the binary buffer.
JsonPaddingWithNul(len) == PadBytes(len, NulByte)

\* Lines 691-692: while len(gltf_json) % 4 != 0: gltf_json += b' '.
JsonPadding(len) == PadBytes(len, SpaceByte)

\* Lines 603-709: everything the function builds in memory.
BuildGlb(mesh, texture_len) ==
    LET positions == AppendSection(0, PackedLen(mesh.vertices, "fff"))
        normals == AppendSection(positions.buffer_len,
                                 PackedLen(mesh.normals, "fff"))
        uvs == AppendSection(normals.buffer_len, PackedLen(mesh.uvs, "ff"))
        index_count == IndexCount(mesh.faces)
        indices == AppendSection(uvs.buffer_len,
                                 index_count * StructSize("H"))
        texture == AppendSection(indices.buffer_len, texture_len)
        buffer_len == texture.buffer_len
        views == << positions, normals, uvs, indices, texture >>
        pos_min == [a \in 1..3 |-> AxisMin(mesh.vertices, a, Infinite)]
        pos_max == [a \in 1..3 |-> AxisMax(mesh.vertices, a, Infinite)]
        counts == << Len(mesh.vertices), Len(mesh.normals), Len(mesh.uvs),
                     index_count >>
        json_raw == GltfFixedLen
                    + SumSeq([i \in 1..5 |-> Digits(views[i].byteOffset)
                                             + Digits(views[i].byteLength)])
                    + SumSeq([i \in 1..4 |-> Digits(counts[i])])
                    + SumSeq([a \in 1..3 |-> JsonFloatLen(pos_min[a], a, FALSE)
                                             + JsonFloatLen(pos_max[a], a, TRUE)])
                    + Digits(buffer_len)
        json_len == PadTo4(json_raw)
        total_length == TotalLength(json_len, buffer_len)
    IN [built |-> TRUE,
        bufferViews |-> [i \in 1..5 |->
                           [byteOffset |-> views[i].byteOffset,
                            byteLength |-> views[i].byteLength]],
        accessors |-> [i \in 1..4 |-> [count |-> counts[i]]],
        pos_min |-> pos_min,
        pos_max |-> pos_max,
        buffers |-> << [byteLength |-> buffer_len] >>,
        json_raw_len |-> json_raw,
        json_padding |-> JsonPadding(json_raw),
        indices_data |-> PackIndices(FlattenFaces(mesh.faces)),
        json_accessor_counts |-> [i \in 1..4 |-> JsonInt(counts[i])],
        glb_data |->
          << [part |-> "magic", len |-> 4, val |-> 0],
             [part |-> "version", len |-> StructSize("I"), val |-> 2],
             [part |-> "total_length", len |-> StructSize("I"),
              val |-> total_length],
             [part |-> "json_chunk_length", len |-> StructSize("I"),
              val |-> json_len],
             [part |-> "json_chunk_type", len |-> 4, val |-> 0],
             [part |-> "gltf_json", len |-> json_len, val |-> 0],
             [part |-> "bin_chunk_length", len |-> StructSize("I"),
              val |-> buffer_len],
             [part |-> "bin_chunk_type", len |-> 4, val |-> 0],
             [part |-> "buffer_data", len |-> buffer_len, val |-> 0] >>]

\* len(glb_data), the bytes f.write is given (line 714).
GlbDataLen(g) == SumSeq([i \in DOMAIN g.glb_data |-> g.glb_data[i].len])

GlbPart(g, name) ==
    g.glb_data[CHOOSE i \in DOMAIN g.glb_data : g.glb_data[i].part = name]

\* struct.pack accepting every index, keeping its low 16 bits.
AnyIndexPackable(faces) == TRUE

\* struct.pack('H', idx) raises struct.error outside 0 .. 65535 (line 650).
IndicesPackable(faces) ==
    \A i \in DOMAIN faces : \A j \in DOMAIN faces[i] :
        faces[i][j] >= 0 /\ faces[i][j] <= MaxUShort

\* Lines 560-709: read the texture and build the GLB bytes in memory.
GlbBuild ==
    /\ pc = "glb_call"
    /\ IF fs["texture"] = Absent
       THEN \* open(texture_path, 'rb') raises (line 566)
            /\ pc' = "raised"
            /\ error' = "FileNotFoundError"
            /\ UNCHANGED glb
       ELSE IF ~IndicesPackable(mesh_data.faces)
       THEN /\ pc' = "raised"
            /\ error' = "struct.error"
            /\ UNCHANGED glb
       ELSE /\ glb' = BuildGlb(mesh_data, fs["texture"])
            /\ pc' = "glb_built"
            /\ UNCHANGED error
    /\ UNCHANGED <<landmarks, mesh_data, tri_failed, fs, avatar_jobs>>
    /\ UNCHANGED <<voice_vars, conc_vars, clone_vars>>

\* Line 713: open(glb_path, 'wb') creates (or truncates) the target file.
GlbOpen ==
    /\ pc = "glb_built"
    /\ fs' = [fs EXCEPT !["glb"] = 0]
    /\ pc' = "glb_open"
    /\ UNCHANGED <<landmarks, mesh_data, tri_failed, glb, error, avatar_jobs>>
    /\ UNCHANGED <<voice_vars, conc_vars, clone_vars>>

\* Line 714: f.write(glb_data) reaches the file in pieces; here the header
\* alone, or the header and the JSON chunk, are on disk.
GlbWritePartial ==
    /\ pc = "glb_open"
    /\ \E done \in { 12, 12 + 8 + GlbPart(glb, "gltf_json").len } :
          fs' = [fs EXCEPT !["glb"] = done]
    /\ pc' = "glb_writing"
    /\ UNCHANGED <<landmarks, mesh_data, tri_failed, glb, error, avatar_jobs>>
    /\ UNCHANGED <<voice_vars, conc_vars, clone_vars>>

\* Lines 714-717: the rest of the write, the close, and the return.
GlbWriteRest ==
    /\ pc = "glb_writing"
    /\ fs' = [fs EXCEPT !["glb"] = GlbDataLen(glb)]
    /\ pc' = "glb_returned"
    /\ UNCHANGED <<landmarks, mesh_data, tri_failed, glb, error, avatar_jobs>>
    /\ UNCHANGED <<voice_vars, conc_vars, clone_vars>>

\* The process is killed, or the request cancelled, inside the with block of
\* lines 713-714: nothing in the function removes the file.
Crash ==
    /\ pc \in {"glb_open", "glb_writing"}
    /\ pc' = "crashed"
    /\ UNCHANGED <<landmarks, mesh_data, tri_failed, fs, glb, error, avatar_jobs>>
    /\ UNCHANGED <<voice_vars, conc_vars, clone_vars>>

\* open or f.write raises OSError (disk full, permission) at lines 713-714:
\* the with block closes the file, nothing removes it, and the exception
\* leaves generate_avatar_glb.
GlbWriteError ==
    /\ pc \in {"glb_open", "glb_writing"}
    /\ pc' = "raised"
    /\ error' = "OSError"
    /\ UNCHANGED <<landmarks, mesh_data, tri_failed, fs, glb, avatar_jobs>>
    /\ UNCHANGED <<voice_vars, conc_vars, clone_vars>>

\* generate_thumbnail, lines 720-726, called at line 230.  Nothing reads the
\* thumbnail's size: the smallest PNG stands for the file.
GenerateThumbnail ==
    /\ pc = "glb_returned"
    /\ fs' = [fs EXCEPT !["thumb"] = SetMin(PngLengths)]
    /\ pc' = "thumbnail_done"
    /\ UNCHANGED <<landmarks, mesh_data, tri_failed, glb, error, avatar_jobs>>
    /\ UNCHANGED <<voice_vars, conc_vars, clone_vars>>

\* Lines 233-250: the job is recorded and the response returned.
StoreMetadata ==
    /\ pc = "thumbnail_done"
    /\ avatar_jobs' = "completed"
    /\ pc' = "done"
    /\ UNCHANGED <<landmarks, mesh_data, tri_failed, fs, glb, error>>
    /\ UNCHANGED <<voice_vars, conc_vars, clone_vars>>

\* Lines 254-257: except Exception: record the failure, answer 500.
HandleException ==
    /\ pc = "raised"
    /\ avatar_jobs' = "failed"
    /\ pc' = "failed"
    /\ UNCHANGED <<landmarks, mesh_data, tri_failed, fs, glb, error>>
    /\ UNCHANGED <<voice_vars, conc_vars, clone_vars>>

\* The files a job record names: avatar_path, texture_path and
\* thumbnail_path of a completed job (lines 233-239); a failed job has only
\* status and error (line 256).
JobPaths(job_status) == IF job_status = "completed" THEN Files ELSE {}

\* delete_avatar, lines 409-424, for the avatar_id of the request.
DeleteAvatar ==
    /\ pc \in {"done", "failed"}
    /\ avatar_jobs # "none"
    /\ fs' = [f \in Files |->
                IF f \in JobPaths(avatar_jobs) THEN Absent ELSE fs[f]]
    /\ avatar_jobs' = "none"
    /\ pc' = "deleted"
    /\ UNCHANGED <<landmarks, mesh_data, tri_failed, glb, error>>
    /\ UNCHANGED <<voice_vars, conc_vars, clone_vars>>

(***************************************************************************)
(* Voice service: visemes for lip sync.                                    *)
(*                                                                         *)
(* Modelled from src/services/voice-service/main.py.  A Python str is the  *)
(* sequence of its characters, each a one-letter string.  A time in        *)
(* seconds is counted in ticks, TicksPerMs ticks to the millisecond.  A    *)
(* blend-shape weight is counted in tenths.                                *)
(***************************************************************************)
TicksPerMs == 2

\* The characters a request text is made of: an unmapped letter, a vowel,
\* the space, an upper-case consonant and a digit.
TextChars == { "h", "i", " ", "P", "1" }

\* str.lower() on the letters of the model: <<upper, lower>>.
LetterCase == { <<"P", "p">>, <<"H", "h">>, <<"I", "i">> }

\* No case conversion at all.
KeepCase(s) == s

\* char.lower(), lines 515 and 544.
Lower(s) ==
    [i \in DOMAIN s |->
        IF \E p \in LetterCase : p[1] = s[i]
        THEN (CHOOSE p \in LetterCase : p[1] = s[i])[2]
        ELSE s[i]]

\* Lines 471-488, in the order of the dict literal, which is the order
\* PHONEME_VISEME_MAP.items() yields.
PHONEME_VISEME_MAP ==
    << [phoneme |-> <<"p">>, viseme |-> "bilabial"],
       [phoneme |-> <<"b">>, viseme |-> "bilabial"],
       [phoneme |-> <<"m">>, viseme |-> "bilabial"],
       [phoneme |-> <<"f">>, viseme |-> "labiodental"],
       [phoneme |-> <<"v">>, viseme |-> "labiodental"],
       [phoneme |-> <<"t", "h">>, viseme |-> "dental"],
       [phoneme |-> <<"t">>, viseme |-> "alveolar"],
       [phoneme |-> <<"d">>, viseme |-> "alveolar"],
       [phoneme |-> <<"n">>, viseme |-> "alveolar"],
       [phoneme |-> <<"s">>, viseme |-> "alveolar"],
       [phoneme |-> <<"z">>, viseme |-> "alveolar"],
       [phoneme |-> <<"l">>, viseme |-> "alveolar"],
       [phoneme |-> <<"s", "h">>, viseme |-> "postalveolar"],
       [phoneme |-> <<"z", "h">>, viseme |-> "postalveolar"],
       [phoneme |-> <<"c", "h">>, viseme |-> "postalveolar"],
       [phoneme |-> <<"j">>, viseme |-> "postalveolar"],
       [phoneme |-> <<"k">>, viseme |-> "velar"],
       [phoneme |-> <<"g">>, viseme |-> "velar"],
       [phoneme |-> <<"n", "g">>, viseme |-> "velar"],
       [phoneme |-> <<"a">>, viseme |-> "open"],
       [phoneme |-> <<"e">>, viseme |-> "mid"],
       [phoneme |-> <<"i">>, viseme |-> "narrow"],
       [phoneme |-> <<"o">>, viseme |-> "rounded"],
       [phoneme |-> <<"u">>, viseme |-> "rounded"],
       [phoneme |-> <<" ">>, viseme |-> "rest"] >>

Shape(jaw, smile, pucker) ==
    [jawOpen |-> jaw, mouthSmile |-> smile, mouthPucker |-> pucker]

\* Lines 491-503, the weights in tenths.
VISEME_SHAPES ==
    [c \in { "rest", "bilabial", "labiodental", "dental", "alveolar",
             "postalveolar", "velar", "open", "mid", "narrow", "rounded" } |->
        CASE c = "rest" -> Shape(0, 0, 0)
          [] c = "bilabial" -> Shape(1, 0, 3)
          [] c = "labiodental" -> Shape(1, 0, 1)
          [] c = "dental" -> Shape(2, 2, 0)
          [] c = "alveolar" -> Shape(2, 1, 0)
          [] c = "postalveolar" -> Shape(2, 0, 2)
          [] c = "velar" -> Shape(3, 0, 0)
          [] c = "open" -> Shape(6, 1, 0)
          [] c = "mid" -> Shape(4, 2, 0)
          [] c = "narrow" -> Shape(2, 3, 0)
          [] c = "rounded" -> Shape(3, 0, 4)]

\* The rest shape whatever the category.
RestShapeForAll(viseme_type) == VISEME_SHAPES["rest"]

\* Lines 524 and 557: VISEME_SHAPES.get(viseme_type, VISEME_SHAPES['rest']).
ShapeFor(viseme_type) ==
    IF viseme_type \in DOMAIN VISEME_SHAPES
    THEN VISEME_SHAPES[viseme_type] ELSE VISEME_SHAPES["rest"]

\* s.startswith(prefix).
StartsWith(s, prefix) ==
    Len(prefix) <= Len(s) /\ SubSeq(s, 1, Len(prefix)) = prefix

\* s in t, for strs: s is a substring of t.
IsSubstring(s, t) ==
    \E k \in 0 .. Len(t) - Len(s) : SubSeq(t, k + 1, k + Len(s)) = s

\* Lines 518-522: the first entry, in dict order, that char_lower equals or
\* starts with; 'rest' when there is none.
RECURSIVE FirstPrefixMatch(_, _)
FirstPrefixMatch(char_lower, items) ==
    IF items = <<>> THEN "rest"
    ELSE IF char_lower = Head(items).phoneme
            \/ StartsWith(char_lower, Head(items).phoneme)
         THEN Head(items).viseme
         ELSE FirstPrefixMatch(char_lower, Tail(items))

\* Lines 546-550: the first entry that char_lower equals.
RECURSIVE FirstExactMatch(_, _)
FirstExactMatch(char_lower, items) ==
    IF items = <<>> THEN "rest"
    ELSE IF char_lower = Head(items).phoneme
         THEN Head(items).viseme
         ELSE FirstExactMatch(char_lower, Tail(items))

\* PHONEME_VISEME_MAP.get(key, default), line 555.
MapGet(key, default) ==
    IF \E i \in DOMAIN PHONEME_VISEME_MAP : PHONEME_VISEME_MAP[i].phoneme = key
    THEN PHONEME_VISEME_MAP[CHOOSE i \in DOMAIN PHONEME_VISEME_MAP :
                               PHONEME_VISEME_MAP[i].phoneme = key].viseme
    ELSE default

\* int(t * 1000) for a time t >= 0 in seconds, lines 528-529 and 577.
ToMs(ticks) == ticks \div TicksPerMs

\* The end time rounded up instead of truncated.
AlignedVisemeEndRoundedUp(char, start, end) ==
    LET viseme_type == FirstPrefixMatch(Lower(char), PHONEME_VISEME_MAP)
    IN [character |-> char,
        start_time_ms |-> ToMs(start),
        end_time_ms |-> ToMs(end + TicksPerMs - 1),
        viseme_type |-> viseme_type,
        blend_shapes |-> ShapeFor(viseme_type)]

\* Lines 515-532: the viseme of one alignment entry.
AlignedViseme(char, start, end) ==
    LET viseme_type == FirstPrefixMatch(Lower(char), PHONEME_VISEME_MAP)
    IN [character |-> char,
        start_time_ms |-> ToMs(start),
        end_time_ms |-> ToMs(end),
        viseme_type |-> viseme_type,
        blend_shapes |-> ShapeFor(viseme_type)]

\* Lines 513-532: for i, char in enumerate(characters), from the 0-based i.
RECURSIVE AlignedLoop(_, _, _)
AlignedLoop(al, i, acc) ==
    IF i >= Len(al.characters) THEN acc
    ELSE AlignedLoop(al, i + 1,
            IF i < Len(al.character_start_times_seconds)
               /\ i < Len(al.character_end_times_seconds)
            THEN Append(acc,
                    AlignedViseme(al.characters[i + 1],
                        al.character_start_times_seconds[i + 1],
                        al.character_end_times_seconds[i + 1]))
            ELSE acc)

\* The enumeration started at the second entry.
VisemesFromAlignmentSkippingFirst(al, request_text) ==
    AlignedLoop(al, 1, <<>>)

\* Lines 506-534.  The text argument is not used by the function.
generate_visemes_from_alignment(al, request_text) ==
    AlignedLoop(al, 0, <<>>)

\* Line 540.
avg_char_duration == 80

\* Line 558: the duration of a space.
space_duration == 50

\* Every character given the average duration.
SameDurationForSpace(char) == avg_char_duration

\* Line 558: duration = avg_char_duration if char != ' ' else 50.
CharDuration(char) ==
    IF char # <<" ">> THEN avg_char_duration ELSE space_duration

\* Lines 544-566: the viseme of one character of the text.
EstimatedViseme(char, current_time) ==
    LET char_lower == Lower(char)
        matched == FirstExactMatch(char_lower, PHONEME_VISEME_MAP)
        viseme_type ==
            IF char = <<" ">> THEN "rest"
            ELSE IF IsSubstring(char_lower, <<"a", "e", "i", "o", "u">>)
                 THEN MapGet(char_lower, "open")
                 ELSE matched
    IN [character |-> char,
        start_time_ms |-> current_time,
        end_time_ms |-> current_time + CharDuration(char),
        viseme_type |-> viseme_type,
        blend_shapes |-> ShapeFor(viseme_type)]

\* current_time advanced by the average duration after every character.
RECURSIVE EstimatedLoopFixedStep(_, _, _)
EstimatedLoopFixedStep(rest_of_text, current_time, acc) ==
    IF rest_of_text = <<>> THEN acc
    ELSE LET char == << Head(rest_of_text) >>
         IN EstimatedLoopFixedStep(Tail(rest_of_text),
                current_time + avg_char_duration,
                Append(acc, EstimatedViseme(char, current_time)))

\* Lines 543-568: for char in text.
RECURSIVE EstimatedLoop(_, _, _)
EstimatedLoop(rest_of_text, current_time, acc) ==
    IF rest_of_text = <<>> THEN acc
    ELSE LET char == << Head(rest_of_text) >>
         IN EstimatedLoop(Tail(rest_of_text),
                current_time + CharDuration(char),
                Append(acc, EstimatedViseme(char, current_time)))

EstimatedVisemesFixedStep(request_text) ==
    EstimatedLoopFixedStep(request_text, 0, <<>>)

\* Lines 537-570.
generate_estimated_visemes(request_text) ==
    EstimatedLoop(request_text, 0, <<>>)

\* Lines 573-578: int(max(end_times) * 1000), or 0 for no end times.
calculate_audio_duration(al) ==
    LET end_times == al.character_end_times_seconds
    IN IF end_times # <<>>
       THEN ToMs(SetMax({ end_times[i] : i \in DOMAIN end_times }))
       ELSE 0

\* Lines 581-585.
estimate_speech_duration(request_text) == Len(request_text) * avg_char_duration

\* data.get("alignment", {}) of a response without alignment (line 263).
NoAlignment ==
    [characters |-> <<>>,
     character_start_times_seconds |-> <<>>,
     character_end_times_seconds |-> <<>>]

\* The multi-letter keys of the table, which an alignment entry may be.
Digraphs ==
    { <<"t", "h">>, <<"s", "h">>, <<"z", "h">>, <<"c", "h">>, <<"n", "g">> }

\* list(text): one entry per character.
CharsOf(request_text) == [i \in DOMAIN request_text |-> << request_text[i] >>]

\* The "characters" list the provider may return for a text: its characters,
\* or its characters with one entry given as a digraph.
CharacterVariants(request_text) ==
    { CharsOf(request_text) }
    \cup { [CharsOf(request_text) EXCEPT ![i] = d] :
              i \in DOMAIN request_text, d \in Digraphs }

\* The timing of the entries: each lasts dur ticks and the next starts gap
\* ticks after it ends (contiguous, with a pause, or overlapping).
Schedules ==
    { [dur |-> 3, gap |-> 0], [dur |-> 3, gap |-> 1], [dur |-> 3, gap |-> -1] }

StartTimes(n, s) == [i \in 1 .. n |-> (i - 1) * (s.dur + s.gap)]
EndTimes(n, s) == [i \in 1 .. n |-> (i - 1) * (s.dur + s.gap) + s.dur]

\* A list without its last entry.
WithoutLast(list) == SubSeq(list, 1, Len(list) - 1)

\* The alignment objects the provider's with-timestamps response may carry
\* (line 263): the three lists of equal length, or one of the time lists
\* short by an entry.
ProviderAlignments(request_text) ==
    { [characters |-> cs,
       character_start_times_seconds |->
           IF short = "start" THEN WithoutLast(StartTimes(Len(cs), s))
           ELSE StartTimes(Len(cs), s),
       character_end_times_seconds |->
           IF short = "end" THEN WithoutLast(EndTimes(Len(cs), s))
           ELSE EndTimes(Len(cs), s)] :
        cs \in CharacterVariants(request_text), s \in Schedules,
        short \in { "none", "start", "end" } }

\* POST /tts/with-visemes, lines 240-281: the with-timestamps call succeeded.
TtsWithTimestamps ==
    /\ tts = "request"
    /\ \E al \in ProviderAlignments(text) :
          /\ alignment' = al
          /\ visemes' = generate_visemes_from_alignment(al, text)
          /\ duration_ms' = calculate_audio_duration(al)
    /\ tts' = "aligned"
    /\ UNCHANGED text
    /\ UNCHANGED <<avatar_vars, conc_vars, clone_vars>>

\* Lines 283-319: httpx.HTTPError from the first call, then the plain
\* text-to-speech call succeeded.
TtsFallback ==
    /\ tts = "request"
    /\ visemes' = generate_estimated_visemes(text)
    /\ duration_ms' = estimate_speech_duration(text)
    /\ tts' = "estimated"
    /\ UNCHANGED <<text, alignment>>
    /\ UNCHANGED <<avatar_vars, conc_vars, clone_vars>>

\* Lines 230-231 and 321-323: no API key, or both calls failed: HTTP 503.
TtsUnavailable ==
    /\ tts = "request"
    /\ tts' = "unavailable"
    /\ UNCHANGED <<text, alignment, visemes, duration_ms>>
    /\ UNCHANGED <<avatar_vars, conc_vars, clone_vars>>


(***************************************************************************)
(* Concurrent generate_avatar requests (lines 155-257).  Request r has    *)
(* the avatar_id r (a fresh uuid4, line 174); the requests share the       *)
(* storage directory and the avatar_jobs dict (line 141).                  *)
(***************************************************************************)
AvatarIds == 1 .. MaxConcurrent

\* The landmark lists of the requests: none, a single landmark (its crop is
\* empty) and a triangle.
RequestLandmarks ==
    { <<>>,
      << [x |-> 0, y |-> 2, z |-> 0] >>,
      << [x |-> 0, y |-> 0, z |-> 0], [x |-> 2, y |-> 0, z |-> 0],
         [x |-> 0, y |-> 2, z |-> 0] >> }

\* Every file written under one name, whatever the avatar_id.
PathWithoutAvatarId(avatar_id, f) == << 1, f >>

\* Lines 546, 712 and 724: os.path.join(AVATAR_STORAGE_PATH,
\* f"{avatar_id}.glb" / f"{avatar_id}_texture.png" / f"{avatar_id}_thumb.png").
AvatarPath(avatar_id, f) == << avatar_id, f >>

\* generate_face_mesh for the landmarks of a request; Qhull is deterministic,
\* so equal landmarks give equal faces.
MeshOfRequest(lms) ==
    LET verts == BuildVertices(lms, ImageSize, ImageSize, <<>>)
        faces == IF DelaunayRaises(verts)
                 THEN generate_fallback_faces(Len(verts))
                 ELSE SimplicesToList(
                         CHOOSE T \in DelaunayTriangulations(verts) : TRUE)
    IN MeshOf(verts, faces, lms, ImageSize, ImageSize)

\* The size of the texture PNG of a request: cv2.imwrite of the same pixels
\* gives the same file.
TextureOfRequest(lms) == SetMin(PngLengths) + Len(lms)

\* Line 216 for request r.
ConcGenerateFaceMesh(r) ==
    /\ reqs[r].pc = "start"
    /\ reqs' = [reqs EXCEPT ![r].pc =
                   IF Len(reqs[r].landmarks) = 0 THEN "raised" ELSE "meshed"]
    /\ UNCHANGED <<store, jobs>>

\* Line 219 for request r.
ConcExtractFaceTexture(r) ==
    /\ reqs[r].pc = "meshed"
    /\ IF EmptyCrop(CropBox(reqs[r].landmarks, ImageSize, ImageSize))
       THEN /\ reqs' = [reqs EXCEPT ![r].pc = "raised"]
            /\ UNCHANGED store
       ELSE /\ store' = [store EXCEPT ![AvatarPath(r, "texture")] =
                            TextureOfRequest(reqs[r].landmarks)]
            /\ reqs' = [reqs EXCEPT ![r].pc = "glb_call"]
    /\ UNCHANGED jobs

\* Lines 222-227 up to open(glb_path, 'wb') for request r.
ConcGlbOpen(r) ==
    /\ reqs[r].pc = "glb_call"
    /\ store' = [store EXCEPT ![AvatarPath(r, "glb")] = 0]
    /\ reqs' = [reqs EXCEPT ![r].pc = "glb_open"]
    /\ UNCHANGED jobs

\* Line 714 for request r: the GLB of its mesh and of the texture file it
\* read at line 566.
ConcGlbWrite(r) ==
    /\ reqs[r].pc = "glb_open"
    /\ store' = [store EXCEPT ![AvatarPath(r, "glb")] =
                    GlbDataLen(BuildGlb(MeshOfRequest(reqs[r].landmarks),
                                        store[AvatarPath(r, "texture")]))]
    /\ reqs' = [reqs EXCEPT ![r].pc = "glb_returned"]
    /\ UNCHANGED jobs

\* Line 230 for request r.
ConcGenerateThumbnail(r) ==
    /\ reqs[r].pc = "glb_returned"
    /\ store' = [store EXCEPT ![AvatarPath(r, "thumb")] = SetMin(PngLengths)]
    /\ reqs' = [reqs EXCEPT ![r].pc = "thumbnail_done"]
    /\ UNCHANGED jobs

\* Lines 233-239 for request r.
ConcStoreMetadata(r) ==
    /\ reqs[r].pc = "thumbnail_done"
    /\ jobs' = [jobs EXCEPT ![r] = "completed"]
    /\ reqs' = [reqs EXCEPT ![r].pc = "done"]
    /\ UNCHANGED store

\* Lines 254-257 for request r.
ConcHandleException(r) ==
    /\ reqs[r].pc = "raised"
    /\ jobs' = [jobs EXCEPT ![r] = "failed"]
    /\ reqs' = [reqs EXCEPT ![r].pc = "failed"]
    /\ UNCHANGED store

\* One step of one of the requests, the others waiting.
ConcStep ==
    /\ \E r \in AvatarIds :
          \/ ConcGenerateFaceMesh(r)
          \/ ConcExtractFaceTexture(r)
          \/ ConcGlbOpen(r)
          \/ ConcGlbWrite(r)
          \/ ConcGenerateThumbnail(r)
          \/ ConcStoreMetadata(r)
          \/ ConcHandleException(r)
    /\ UNCHANGED <<avatar_vars, voice_vars, clone_vars>>

\* No concurrent requests.
ConcIdle ==
    /\ reqs = <<>>
    /\ store = <<>>
    /\ jobs = <<>>


(***************************************************************************)
(* Voice service: cloned voices and the voice a TTS request speaks with.   *)
(* Modelled from src/services/voice-service/main.py, lines 174-237 and     *)
(* 338-465.  A voice id is a record; the provider gives every clone a new  *)
(* id, numbered here by the cloning job that obtained it.                  *)
(***************************************************************************)
Users == { "u1", "u2" }

\* None, as a user_id and as a voice_id.
NoUser == "None"
NoVoice == [kind |-> "None", n |-> 0]

\* DEFAULT_VOICES["neutral"], line 114.
NeutralVoice == [kind |-> "neutral", n |-> 0]

\* A voice_id a request names itself.
RequestedVoice == [kind |-> "requested", n |-> 0]

\* The voice_id of the provider's answer to the upload of job job_id.
ClonedVoice(job_id) == [kind |-> "cloned", n |-> job_id]

\* Lines 185-190 and 233-237: request.voice_id, else the user's cloned
\* voice, else the neutral default.
ResolveVoice(request_voice_id, request_user_id, mapping) ==
    LET first == request_voice_id
        second == IF first = NoVoice /\ request_user_id # NoUser
                  THEN mapping[request_user_id] ELSE first
    IN IF second = NoVoice THEN NeutralVoice ELSE second

\* What the provider may answer to DELETE /voices/{voice_id}: a status
\* code, or no answer at all (httpx.TransportError).
DeleteAnswers == { "200", "204", "404", "500", "transport_error" }

\* response.raise_for_status() raises httpx.HTTPStatusError.
RaiseForStatusRaises(answer) == answer \notin { "200", "204" }

\* The mapping removed whatever the provider answered.
AnyAnswerRemovesMapping(answer) == TRUE

\* Lines 448-460: the request gets as far as del user_voices[user_id].
DeleteRemovesMapping(answer) ==
    /\ answer # "transport_error"
    /\ answer \in { "200", "404" } \/ ~RaiseForStatusRaises(answer)

\* What the upload to /voices/add may end in (lines 376-406): an HTTP or
\* transport error, a success response without voice_id, or one with it.
CloneOutcomes == { "http_error", "no_voice_id", "voice_id" }

\* POST /voice/clone, lines 360-366: the job is created as "processing".
CloneStart ==
    /\ requests_made < MaxRequests
    /\ \E u \in Users :
          voice_cloning_jobs' = Append(voice_cloning_jobs,
              [user_id |-> u, status |-> "processing", voice_id |-> NoVoice,
               request |-> "running"])
    /\ requests_made' = requests_made + 1
    /\ UNCHANGED <<user_voices, history, tts_voice>>
    /\ UNCHANGED <<avatar_vars, voice_vars, conc_vars>>

\* Lines 368-412: the upload ends and the request returns or raises.
CloneFinish ==
    /\ \E job_id \in DOMAIN voice_cloning_jobs, outcome \in CloneOutcomes :
          LET job == voice_cloning_jobs[job_id]
          IN /\ job.request = "running"
             /\ CASE outcome = "voice_id" ->
                       \* lines 391-404
                       /\ user_voices' = [user_voices EXCEPT
                                             ![job.user_id] = ClonedVoice(job_id)]
                       /\ voice_cloning_jobs' = [voice_cloning_jobs EXCEPT
                             ![job_id] = [job EXCEPT
                                             !.status = "completed",
                                             !.voice_id = ClonedVoice(job_id),
                                             !.request = "returned"]]
                       /\ history' = Append(history,
                             [op |-> "clone", user_id |-> job.user_id,
                              voice_id |-> ClonedVoice(job_id),
                              answer |-> "200"])
                  [] outcome = "no_voice_id" ->
                       \* line 406: HTTPException is not an httpx.HTTPError,
                       \* so the handler of line 408 does not run
                       /\ voice_cloning_jobs' = [voice_cloning_jobs EXCEPT
                             ![job_id] = [job EXCEPT !.request = "raised"]]
                       /\ UNCHANGED <<user_voices, history>>
                  [] outcome = "http_error" ->
                       \* lines 408-412
                       /\ voice_cloning_jobs' = [voice_cloning_jobs EXCEPT
                             ![job_id] = [job EXCEPT
                                             !.status = "failed",
                                             !.request = "raised"]]
                       /\ UNCHANGED <<user_voices, history>>
    /\ UNCHANGED <<requests_made, tts_voice>>
    /\ UNCHANGED <<avatar_vars, voice_vars, conc_vars>>

\* DELETE /voice/user/{user_id}, lines 441-465, for a user with a voice
\* (without one the request is answered 404 and nothing changes).
DeleteUserVoice ==
    /\ requests_made < MaxRequests
    /\ \E u \in Users, answer \in DeleteAnswers :
          /\ user_voices[u] # NoVoice
          /\ user_voices' =
                IF DeleteRemovesMapping(answer)
                THEN [user_voices EXCEPT ![u] = NoVoice]
                ELSE user_voices
          /\ history' = Append(history,
                [op |-> "delete", user_id |-> u, voice_id |-> user_voices[u],
                 answer |-> answer])
    /\ requests_made' = requests_made + 1
    /\ UNCHANGED <<voice_cloning_jobs, tts_voice>>
    /\ UNCHANGED <<avatar_vars, voice_vars, conc_vars>>

\* POST /tts and POST /tts/with-visemes, lines 184-190 and 233-237: the
\* voice the request is sent to the provider with.
TextToSpeech ==
    /\ \E rv \in { NoVoice, RequestedVoice }, ru \in Users \cup { NoUser } :
          tts_voice' = [request_voice_id |-> rv, request_user_id |-> ru,
                        voice_id |-> ResolveVoice(rv, ru, user_voices),
                        after |-> Len(history)]
    /\ UNCHANGED <<user_voices, voice_cloning_jobs, history, requests_made>>
    /\ UNCHANGED <<avatar_vars, voice_vars, conc_vars>>

\* No TTS request yet.
NoTts ==
    [request_voice_id |-> NoVoice, request_user_id |-> NoUser,
     voice_id |-> NoVoice, after |-> 0]

\* The voice service at start-up (lines 33-34).
CloneIdle ==
    /\ user_voices = [u \in Users |-> NoVoice]
    /\ voice_cloning_jobs = <<>>
    /\ history = <<>>
    /\ requests_made = 0
    /\ tts_voice = NoTts


(***************************************************************************)
(* Spec: one generate_avatar request (lines 155-257) from its landmarks.   *)
(***************************************************************************)
Init ==
    /\ pc = "start"
    /\ landmarks \in SeqsUpTo(LandmarkPoints, MaxLandmarks)
    /\ mesh_data = NoMesh
    /\ tri_failed = FALSE
    /\ fs = [f \in Files |-> Absent]
    /\ glb = NoGlb
    /\ error = "none"
    /\ avatar_jobs = "none"
    /\ tts = "idle"
    /\ text = <<>>
    /\ alignment = NoAlignment
    /\ visemes = <<>>
    /\ duration_ms = 0
    /\ ConcIdle
    /\ CloneIdle

Next ==
    \/ GenerateFaceMesh
    \/ ExtractFaceTexture
    \/ GlbBuild
    \/ GlbOpen
    \/ GlbWritePartial
    \/ GlbWriteRest
    \/ Crash
    \/ GenerateThumbnail
    \/ StoreMetadata
    \/ HandleException
    \/ GlbWriteError
    \/ DeleteAvatar

Spec == Init /\ [][Next]_vars

(***************************************************************************)
(* SpecGLB: generate_avatar_glb called directly with any mesh arrays and   *)
(* any texture file, as a caller other than generate_avatar may.           *)
(***************************************************************************)
SampleVertices == { <<-4, 4, 0>>, <<0, 0, 1>> }
SampleNormals == { [num |-> <<0, 0, 4>>, den2 |-> 16] }
SampleUVs == { <<0, 4>> }
SampleFaces == { <<0, 1, 2>>, <<0, 1, MaxUShort + 1>> }

InitGLB ==
    /\ pc = "glb_call"
    /\ landmarks = <<>>
    /\ \E vs \in SeqsUpTo(SampleVertices, MaxVerts),
          ns \in SeqsUpTo(SampleNormals, MaxVerts),
          us \in SeqsUpTo(SampleUVs, MaxVerts),
          fcs \in SeqsUpTo(SampleFaces, MaxFaces) :
          mesh_data = [vertices |-> vs, faces |-> fcs, uvs |-> us,
                       normals |-> ns, returned |-> TRUE]
    /\ tri_failed = FALSE
    /\ fs \in { [f \in Files |-> IF f = "texture" THEN t ELSE Absent] :
                t \in PngLengths \cup {Absent} }
    /\ glb = NoGlb
    /\ error = "none"
    /\ avatar_jobs = "none"
    /\ tts = "idle"
    /\ text = <<>>
    /\ alignment = NoAlignment
    /\ visemes = <<>>
    /\ duration_ms = 0
    /\ ConcIdle
    /\ CloneIdle

NextGLB ==
    \/ GlbBuild
    \/ GlbOpen
    \/ GlbWritePartial
    \/ GlbWriteRest
    \/ Crash
    \/ GlbWriteError

SpecGLB == InitGLB /\ [][NextGLB]_vars

(***************************************************************************)
(* SpecTTS: one /tts/with-visemes request (lines 224-323) for its text.    *)
(***************************************************************************)
InitTTS ==
    /\ tts = "request"
    /\ text \in SeqsUpTo(TextChars, MaxText)
    /\ alignment = NoAlignment
    /\ visemes = <<>>
    /\ duration_ms = 0
    /\ ConcIdle
    /\ CloneIdle
    /\ pc = "idle"
    /\ landmarks = <<>>
    /\ mesh_data = NoMesh
    /\ tri_failed = FALSE
    /\ fs = [f \in Files |-> Absent]
    /\ glb = NoGlb
    /\ error = "none"
    /\ avatar_jobs = "none"

NextTTS ==
    \/ TtsWithTimestamps
    \/ TtsFallback
    \/ TtsUnavailable

SpecTTS == InitTTS /\ [][NextTTS]_vars

\* No avatar request and no TTS request in progress.
AvatarIdle ==
    /\ pc = "idle"
    /\ landmarks = <<>>
    /\ mesh_data = NoMesh
    /\ tri_failed = FALSE
    /\ fs = [f \in Files |-> Absent]
    /\ glb = NoGlb
    /\ error = "none"
    /\ avatar_jobs = "none"

VoiceIdle ==
    /\ tts = "idle"
    /\ text = <<>>
    /\ alignment = NoAlignment
    /\ visemes = <<>>
    /\ duration_ms = 0

(***************************************************************************)
(* SpecConc: MaxConcurrent generate_avatar requests, their steps           *)
(* interleaved in every order.                                             *)
(***************************************************************************)
InitConc ==
    /\ reqs \in [AvatarIds ->
                   [pc : { "start" }, landmarks : RequestLandmarks]]
    /\ store = [p \in AvatarIds \X Files |-> Absent]
    /\ jobs = [r \in AvatarIds |-> "none"]
    /\ AvatarIdle
    /\ VoiceIdle
    /\ CloneIdle

NextConc == ConcStep

SpecConc == InitConc /\ [][NextConc]_vars

(***************************************************************************)
(* SpecVoices: clone_voice, delete_user_voice and TTS requests one after   *)
(* another, in every order.                                                *)
(***************************************************************************)
InitVoices ==
    /\ CloneIdle
    /\ AvatarIdle
    /\ VoiceIdle
    /\ ConcIdle

NextVoices ==
    \/ CloneStart
    \/ CloneFinish
    \/ DeleteUserVoice
    \/ TextToSpeech

SpecVoices == InitVoices /\ [][NextVoices]_vars

(***************************************************************************)
(* Properties.                                                             *)
(***************************************************************************)
NumLandmarks == Len(landmarks)

Mismatched ==
    \/ Len(mesh_data.uvs) # Len(mesh_data.vertices)
    \/ Len(mesh_data.normals) # Len(mesh_data.vertices)

\* C1: the total-length field of the GLB header is 12 + 8 + len(padded JSON)
\* + 8 + len(padded buffer), and that is the number of bytes of glb_data,
\* and the size of the file once the write has completed.
TotalLengthFieldIsEmittedLength ==
    glb.built =>
        LET total == GlbPart(glb, "total_length").val
        IN /\ total = 12 + 8 + GlbPart(glb, "gltf_json").len
                      + 8 + GlbPart(glb, "buffer_data").len
           /\ total = GlbDataLen(glb)
           /\ pc = "glb_returned" => fs["glb"] = total

\* C1 witness: a GLB with one face and two vertices was written completely.
TotalLengthWitness ==
    /\ pc = "glb_returned"
    /\ Len(mesh_data.faces) = 1
    /\ Len(mesh_data.vertices) = 2
    /\ fs["glb"] = GlbPart(glb, "total_length").val

\* C2: the byteOffset of each of the five bufferViews is a multiple of 4.
BufferViewOffsetsAligned ==
    glb.built =>
        \A i \in 1..5 : glb.bufferViews[i].byteOffset % 4 = 0

\* C2 witness: an odd face count (index section of 6 bytes) and a texture
\* whose length is not a multiple of 4.
OffsetsAlignedWitness ==
    /\ glb.built
    /\ Len(mesh_data.faces) = 1
    /\ glb.bufferViews[4].byteLength % 4 = 2
    /\ glb.bufferViews[5].byteLength % 4 # 0
    /\ glb.bufferViews[5].byteOffset > glb.bufferViews[4].byteOffset

\* C3: buffers[0].byteLength is the final padded buffer length and the BIN
\* chunk length field, and every bufferView ends inside the buffer.
BufferViewsInsideBuffer ==
    glb.built =>
        /\ glb.buffers[1].byteLength = GlbPart(glb, "buffer_data").len
        /\ glb.buffers[1].byteLength = GlbPart(glb, "bin_chunk_length").val
        /\ glb.buffers[1].byteLength % 4 = 0
        /\ \A i \in 1..5 :
              glb.bufferViews[i].byteOffset + glb.bufferViews[i].byteLength
                 <= glb.buffers[1].byteLength

\* C3 witness: the texture view ends before the padded end of the buffer.
InsideBufferWitness ==
    /\ glb.built
    /\ Len(mesh_data.vertices) > 0
    /\ glb.bufferViews[5].byteOffset + glb.bufferViews[5].byteLength
          < glb.buffers[1].byteLength

\* C4: a call with len(uvs) # len(vertices) or len(normals) # len(vertices)
\* (readable texture, packable indices) ends with MeshValidationError and at
\* no time is there a file at the target path.
MismatchedMeshRejected ==
    (Mismatched /\ fs["texture"] # Absent /\ IndicesPackable(mesh_data.faces))
       => /\ fs["glb"] = Absent
          /\ pc # "glb_returned"
          /\ pc = "raised" => error = "MeshValidationError"

\* C5: the target path either does not exist or holds a complete GLB whose
\* size is its header's total-length field.
TargetNeverPartial ==
    \/ fs["glb"] = Absent
    \/ glb.built /\ fs["glb"] = GlbPart(glb, "total_length").val

\* C6: with fewer than 3 landmarks mesh generation returns no mesh (it fails
\* with InsufficientLandmarks), and the request never produces a GLB.
FewLandmarksRejected ==
    NumLandmarks < 3
       => /\ ~mesh_data.returned
          /\ fs["glb"] = Absent
          /\ pc \in {"start", "raised", "failed"}

\* C7: for n >= 3 landmarks generate_face_mesh returns at least one face and
\* every index of every face is in [0, n).
FacesNonEmptyAndInRange ==
    (NumLandmarks >= 3 /\ pc # "start")
       => /\ mesh_data.returned
          /\ Len(mesh_data.faces) >= 1
          /\ \A i \in DOMAIN mesh_data.faces :
                \A j \in DOMAIN mesh_data.faces[i] :
                    mesh_data.faces[i][j] \in 0 .. (NumLandmarks - 1)

\* C7 witness: four landmarks triangulated into two faces.
FacesInRangeWitness ==
    /\ NumLandmarks = 4
    /\ mesh_data.returned
    /\ ~tri_failed
    /\ Len(mesh_data.faces) = 2

\* C8: the fallback for n >= 3 vertices yields exactly the n - 2 triangles
\* (0, i, i + 1), i = 1 .. n - 2, in that order.
FallbackIsFan ==
    (tri_failed /\ NumLandmarks >= 3)
       => /\ Len(mesh_data.faces) = NumLandmarks - 2
          /\ \A i \in 1 .. (NumLandmarks - 2) :
                mesh_data.faces[i] = <<0, i, i + 1>>

\* C8 witness: the fallback was taken for four landmarks.
FallbackFanWitness ==
    /\ tri_failed
    /\ NumLandmarks = 4
    /\ Len(mesh_data.faces) = 2

\* C9: when triangulation raises for n >= 3 landmarks the failure is not
\* surfaced: generate_face_mesh returns a complete mesh with the fan's
\* faces, and no later state of the request carries the triangulation error.
TriangulationFailureRepaired ==
    (tri_failed /\ NumLandmarks >= 3)
       => /\ error # "QhullError"
          /\ mesh_data.returned
          /\ Len(mesh_data.faces) = NumLandmarks - 2
          /\ Len(mesh_data.vertices) = NumLandmarks
          /\ Len(mesh_data.uvs) = NumLandmarks
          /\ Len(mesh_data.normals) = NumLandmarks
          /\ pc = "meshed" => error = "none"

\* C9 witness: a request whose triangulation failed ran to completion.
FailureRepairedWitness ==
    /\ tri_failed
    /\ NumLandmarks >= 3
    /\ pc = "done"
    /\ avatar_jobs = "completed"
    /\ fs["glb"] = GlbPart(glb, "total_length").val

\* C10: the returned mesh has one vertex, one uv and one normal per landmark,
\* vertex i and uv i being those of landmark i.
MeshArraysIndexAligned ==
    mesh_data.returned =>
        /\ Len(mesh_data.vertices) = NumLandmarks
        /\ Len(mesh_data.uvs) = Len(mesh_data.vertices)
        /\ Len(mesh_data.normals) = Len(mesh_data.vertices)
        /\ \A i \in 1 .. NumLandmarks :
              /\ mesh_data.vertices[i]
                    = NormalizeLandmark(landmarks[i], ImageSize, ImageSize)
              /\ mesh_data.uvs[i] = LandmarkUV(landmarks[i], ImageSize, ImageSize)

\* C10 witness: a mesh of three different landmarks.
IndexAlignedWitness ==
    /\ mesh_data.returned
    /\ NumLandmarks = 3
    /\ landmarks[1] # landmarks[2]
    /\ landmarks[2] # landmarks[3]
    /\ landmarks[1] # landmarks[3]

\* The number of times the 0-based vertex index idx occurs in a face.
RECURSIVE Occurrences(_, _)
Occurrences(face, idx) ==
    IF face = <<>> THEN 0
    ELSE (IF Head(face) = idx THEN 1 ELSE 0) + Occurrences(Tail(face), idx)

InSomeFace(faces, idx) ==
    \E k \in 1 .. Len(faces) : Occurrences(faces[k], idx) > 0

\* The sum of the face normals of the faces that contain vertex idx.
RECURSIVE FaceNormalSum(_, _, _)
FaceNormalSum(verts, faces, idx) ==
    IF faces = <<>> THEN <<0, 0, 0>>
    ELSE LET n == FaceNormal(verts, Head(faces))
             k == Occurrences(Head(faces), idx)
         IN Add3(<<k * n[1], k * n[2], k * n[3]>>,
                 FaceNormalSum(verts, Tail(faces), idx))

\* num / sqrt(den2) has length 1.
IsUnitNormal(n) == n.den2 > 0 /\ Norm2(n.num) = n.den2

\* num / sqrt(den2) is exactly (0, 0, 0).
IsZeroNormal(n) == n.num = <<0, 0, 0>> /\ n.den2 = 1

\* C11 as stated: every vertex that is in a face has a unit normal, and a
\* zero normal occurs only at vertices that are in no face.
ParticipatingNormalsUnit ==
    mesh_data.returned =>
        \A i \in 1 .. Len(mesh_data.normals) :
            /\ InSomeFace(mesh_data.faces, i - 1)
                  => IsUnitNormal(mesh_data.normals[i])
                     /\ ~IsZeroNormal(mesh_data.normals[i])
            /\ IsZeroNormal(mesh_data.normals[i])
                  => ~InSomeFace(mesh_data.faces, i - 1)

\* C11: every vertex whose face normals sum to a non-zero vector has that
\* sum scaled to unit length as its normal; every vertex whose face normals
\* sum to zero (it is in no face, its faces are degenerate, or its faces
\* cancel) has exactly the zero normal.
NormalsUnitOrZeroSum ==
    mesh_data.returned =>
        \A i \in 1 .. Len(mesh_data.normals) :
            LET sum == FaceNormalSum(mesh_data.vertices, mesh_data.faces, i - 1)
                n == mesh_data.normals[i]
            IN /\ sum # <<0, 0, 0>> => n.num = sum /\ IsUnitNormal(n)
               /\ sum = <<0, 0, 0>> => IsZeroNormal(n)
               /\ ~InSomeFace(mesh_data.faces, i - 1) => IsZeroNormal(n)

\* C11 witness: a mesh in which one vertex of a face has a unit normal and
\* another vertex of a face has the zero normal.
ZeroNormalInFaceWitness ==
    /\ mesh_data.returned
    /\ \E i, j \in 1 .. Len(mesh_data.normals) :
          /\ InSomeFace(mesh_data.faces, i - 1)
          /\ InSomeFace(mesh_data.faces, j - 1)
          /\ IsZeroNormal(mesh_data.normals[i])
          /\ IsUnitNormal(mesh_data.normals[j])
          /\ mesh_data.normals[j].num # <<0, 0, 0>>

\* C12: the accessor counts read back from the JSON chunk of a generated GLB
\* are the lengths of the vertex, normal and uv arrays and the number of
\* indices of all faces, three per triangle.
AccessorCountsRoundTrip ==
    glb.built =>
        LET count == [i \in 1..4 |-> ParseJsonInt(glb.json_accessor_counts[i])]
        IN /\ count[1] = Len(mesh_data.vertices)
           /\ count[2] = Len(mesh_data.normals)
           /\ count[3] = Len(mesh_data.uvs)
           /\ count[4] = SumSeq([k \in DOMAIN mesh_data.faces |->
                                   Len(mesh_data.faces[k])])
           /\ count[4] = 3 * Len(mesh_data.faces)

\* C12 witness: a written GLB of a mesh with vertices and several faces.
AccessorCountsWitness ==
    /\ pc = "glb_returned"
    /\ glb.built
    /\ Len(mesh_data.vertices) = MaxVerts
    /\ Len(mesh_data.faces) >= 2
    /\ fs["glb"] = GlbDataLen(glb)

\* Adjacent visemes meet: each starts when the one before it ends.
Contiguous(vs) ==
    \A i \in 1 .. Len(vs) - 1 : vs[i].end_time_ms = vs[i + 1].start_time_ms

\* No viseme ends before it starts.
TimeOrdered(vs) ==
    \A i \in 1 .. Len(vs) : vs[i].start_time_ms <= vs[i].end_time_ms

\* C13: the estimated visemes of every text start at 0 and are laid end to
\* end, each starting where the one before it ends.
EstimatedContiguousFromZero ==
    tts = "estimated" =>
        /\ visemes # <<>> => visemes[1].start_time_ms = 0
        /\ Contiguous(visemes)
        /\ TimeOrdered(visemes)

\* C13 witness: estimated visemes of a text with a space between two
\* other characters.
EstimatedContiguousWitness ==
    /\ tts = "estimated"
    /\ Len(visemes) >= 3
    /\ visemes[1].character # <<" ">>
    /\ visemes[2].character = <<" ">>
    /\ visemes[3].start_time_ms = visemes[2].end_time_ms

\* The number of characters of a text that are (are not) the space.
SpaceCount(request_text) ==
    Cardinality({ i \in DOMAIN request_text : request_text[i] = " " })
NonSpaceCount(request_text) ==
    Cardinality({ i \in DOMAIN request_text : request_text[i] # " " })

\* C14: the duration_ms reported with estimated visemes is 80 ms for every
\* non-space character plus 50 ms for every space, which is where the last
\* estimated viseme ends.
EstimatedDurationMatchesVisemes ==
    tts = "estimated" =>
        /\ duration_ms = 80 * NonSpaceCount(text) + 50 * SpaceCount(text)
        /\ visemes # <<>> => duration_ms = visemes[Len(visemes)].end_time_ms

\* The entries of the alignment that have both a start and an end time.
TimedEntries(al) ==
    Min2(Len(al.characters),
         Min2(Len(al.character_start_times_seconds),
              Len(al.character_end_times_seconds)))

\* The alignment's own times meet: every timed entry starts when the one
\* before it ends, and none ends before it starts.
AlignmentContiguous(al) ==
    /\ \A i \in 1 .. TimedEntries(al) - 1 :
          al.character_end_times_seconds[i]
              = al.character_start_times_seconds[i + 1]
    /\ \A i \in 1 .. TimedEntries(al) :
          al.character_start_times_seconds[i]
              <= al.character_end_times_seconds[i]

\* C15 as stated: the aligned visemes of every alignment are time-ordered
\* and contiguous.
AlignedContiguous ==
    tts = "aligned" => Contiguous(visemes) /\ TimeOrdered(visemes)

\* C15: the aligned visemes of every alignment whose own character times are
\* contiguous (each entry starts when the one before it ends) are
\* time-ordered and contiguous.
AlignedContiguousWhenAlignmentIs ==
    tts = "aligned" /\ AlignmentContiguous(alignment)
        => Contiguous(visemes) /\ TimeOrdered(visemes)

\* C15 witness: three aligned visemes of a contiguous alignment whose times
\* are not whole milliseconds.
AlignedContiguousWitness ==
    /\ tts = "aligned"
    /\ AlignmentContiguous(alignment)
    /\ Len(visemes) >= 3
    /\ alignment.character_end_times_seconds[1] % TicksPerMs # 0
    /\ visemes[2].start_time_ms < visemes[2].end_time_ms

\* C16 as stated: aligned mode gives one viseme for each character of the
\* text, at its index, with the alignment's times of that index in
\* milliseconds; no character is dropped.
AlignedOneVisemePerTextChar ==
    tts = "aligned" =>
        /\ Len(visemes) = Len(text)
        /\ \A i \in 1 .. Len(visemes) :
              /\ i <= Len(text) => visemes[i].character = << text[i] >>
              /\ i <= Len(alignment.character_start_times_seconds)
                    => visemes[i].start_time_ms
                          = alignment.character_start_times_seconds[i]
                                \div TicksPerMs
              /\ i <= Len(alignment.character_end_times_seconds)
                    => visemes[i].end_time_ms
                          = alignment.character_end_times_seconds[i]
                                \div TicksPerMs

\* C16: aligned mode gives one viseme for each entry of the alignment's
\* characters list that has both a start and an end time, in order, with
\* that entry as its character and its times truncated to milliseconds;
\* when the list is the text's characters and both time lists are as long,
\* that is one viseme for each character of the text and none is dropped.
AlignedOneVisemePerTimedEntry ==
    tts = "aligned" =>
        /\ Len(visemes) = TimedEntries(alignment)
        /\ \A i \in 1 .. Len(visemes) :
              /\ visemes[i].character = alignment.characters[i]
              /\ visemes[i].start_time_ms
                    = alignment.character_start_times_seconds[i] \div TicksPerMs
              /\ visemes[i].end_time_ms
                    = alignment.character_end_times_seconds[i] \div TicksPerMs
        /\ ( /\ alignment.characters = CharsOf(text)
             /\ Len(alignment.character_start_times_seconds) = Len(text)
             /\ Len(alignment.character_end_times_seconds) = Len(text) )
           => /\ Len(visemes) = Len(text)
              /\ \A i \in 1 .. Len(text) :
                    visemes[i].character = << text[i] >>

\* C16 witness: the visemes of a three-character text whose alignment is
\* index-aligned with it.
AlignedPerCharWitness ==
    /\ tts = "aligned"
    /\ Len(text) = 3
    /\ alignment.characters = CharsOf(text)
    /\ Len(alignment.character_start_times_seconds) = 3
    /\ Len(alignment.character_end_times_seconds) = 3
    /\ Len(visemes) = 3
    /\ visemes[3].end_time_ms > visemes[1].end_time_ms

\* C17: estimated mode gives one viseme for each character of the text, in
\* text order, with that character as its character field, lasting 80 ms
\* for a non-space character and 50 ms for a space; "hi" gives two visemes
\* of 80 ms, 160 ms in total.
EstimatedOneVisemePerChar ==
    tts = "estimated" =>
        /\ Len(visemes) = Len(text)
        /\ \A i \in 1 .. Len(text) :
              /\ visemes[i].character = << text[i] >>
              /\ visemes[i].end_time_ms - visemes[i].start_time_ms
                    = IF text[i] = " " THEN 50 ELSE 80
        /\ text = << "h", "i" >>
              => /\ Len(visemes) = 2
                 /\ visemes[1].end_time_ms - visemes[1].start_time_ms = 80
                 /\ visemes[2].end_time_ms - visemes[2].start_time_ms = 80
                 /\ visemes[2].end_time_ms = 160
                 /\ visemes[1].viseme_type = "rest"
                 /\ visemes[2].viseme_type = "narrow"

\* C17 witness: the estimated visemes of "hi".
EstimatedHiWitness ==
    /\ tts = "estimated"
    /\ text = << "h", "i" >>
    /\ Len(visemes) = 2

\* Two strs are equal when the case of their letters is ignored.
EqualIgnoringCase(s, t) ==
    /\ Len(s) = Len(t)
    /\ \A i \in 1 .. Len(s) :
          \/ s[i] = t[i]
          \/ << s[i], t[i] >> \in LetterCase
          \/ << t[i], s[i] >> \in LetterCase

\* The entries of the phoneme table whose key is s, the case ignored.
KeysMatching(s) ==
    { i \in DOMAIN PHONEME_VISEME_MAP :
        EqualIgnoringCase(s, PHONEME_VISEME_MAP[i].phoneme) }

\* C18: in both timing modes a character that is not a key of the phoneme
\* table is 'rest', the space is 'rest', a single character that is a key
\* in either case has that key's category, and every viseme_type is a key
\* of VISEME_SHAPES.
VisemeTypeOfCharacter ==
    tts \in { "aligned", "estimated" } =>
        \A i \in 1 .. Len(visemes) :
            LET v == visemes[i]
            IN /\ KeysMatching(v.character) = {} => v.viseme_type = "rest"
               /\ v.character = << " " >> => v.viseme_type = "rest"
               /\ Len(v.character) = 1
                     => \A k \in KeysMatching(v.character) :
                           v.viseme_type = PHONEME_VISEME_MAP[k].viseme
               /\ v.viseme_type \in DOMAIN VISEME_SHAPES

\* C18 witness: aligned visemes of an unmapped letter, an upper-case key
\* and a space.
VisemeTypeWitness ==
    /\ tts = "aligned"
    /\ \E i, j, k \in 1 .. Len(visemes) :
          /\ visemes[i].character = << "h" >>
          /\ visemes[i].viseme_type = "rest"
          /\ visemes[j].character = << "P" >>
          /\ visemes[j].viseme_type = "bilabial"
          /\ visemes[k].character = << " " >>

\* C19: in aligned mode an alignment entry that is a key of the phoneme
\* table in either case, the digraphs th, sh, zh, ch and ng included, has
\* that key's own category.
AlignedKeyGetsOwnCategory ==
    tts = "aligned" =>
        \A i \in 1 .. Len(visemes) :
            \A k \in KeysMatching(visemes[i].character) :
                visemes[i].viseme_type = PHONEME_VISEME_MAP[k].viseme

\* C20: the blend_shapes of every viseme is the triple VISEME_SHAPES gives
\* its viseme_type, every category of the phoneme table has a triple, and
\* every weight is between 0 and 1 (0 .. 10 tenths).
BlendShapesFromTable ==
    /\ tts \in { "aligned", "estimated" } =>
          \A i \in 1 .. Len(visemes) :
              /\ visemes[i].viseme_type \in DOMAIN VISEME_SHAPES
              /\ visemes[i].blend_shapes = VISEME_SHAPES[visemes[i].viseme_type]
              /\ visemes[i].blend_shapes.jawOpen \in 0 .. 10
              /\ visemes[i].blend_shapes.mouthSmile \in 0 .. 10
              /\ visemes[i].blend_shapes.mouthPucker \in 0 .. 10
    /\ \A k \in DOMAIN PHONEME_VISEME_MAP :
          PHONEME_VISEME_MAP[k].viseme \in DOMAIN VISEME_SHAPES
    /\ \A c \in DOMAIN VISEME_SHAPES :
          /\ DOMAIN VISEME_SHAPES[c] = { "jawOpen", "mouthSmile", "mouthPucker" }
          /\ \A w \in DOMAIN VISEME_SHAPES[c] : VISEME_SHAPES[c][w] \in 0 .. 10

\* C20 witness: a response with visemes of two categories with different
\* triples, neither the rest shape.
BlendShapesWitness ==
    /\ tts \in { "aligned", "estimated" }
    /\ \E i, j \in 1 .. Len(visemes) :
          /\ visemes[i].viseme_type = "bilabial"
          /\ visemes[j].viseme_type = "narrow"
          /\ visemes[i].blend_shapes # visemes[j].blend_shapes
          /\ visemes[i].blend_shapes # VISEME_SHAPES["rest"]

\* C21: a request whose crop region has zero area fails in texture
\* extraction with the typed error InvalidFaceRegion, and no texture file
\* is written.
EmptyCropRaisesInvalidFaceRegion ==
    ( /\ mesh_data.returned
      /\ pc \notin { "start", "meshed" }
      /\ EmptyCrop(CropBox(landmarks, ImageSize, ImageSize)) )
        => /\ error = "InvalidFaceRegion"
           /\ fs["texture"] = Absent

JsonChunkPaddedWithSpaces ==
    glb.built =>
        LET chunk_len == GlbPart(glb, "gltf_json").len
        IN /\ chunk_len % 4 = 0
           /\ chunk_len = glb.json_raw_len + Len(glb.json_padding)
           /\ Len(glb.json_padding) \in 0 .. 3
           /\ \A i \in 1 .. Len(glb.json_padding) : glb.json_padding[i] = 32
           /\ GlbPart(glb, "json_chunk_length").val = chunk_len

\* C23 witness: a written GLB whose compact JSON needed padding.
JsonPaddingWitness ==
    /\ pc = "glb_returned"
    /\ glb.built
    /\ glb.json_raw_len % 4 # 0
    /\ Len(glb.json_padding) > 0

\* C25: once delete_avatar has succeeded for the avatar of a completed or
\* failed generation, its avatar_jobs entry is gone and none of its files
\* (GLB, texture, thumbnail) is left in storage.
DeleteRemovesAllFiles ==
    pc = "deleted" =>
        /\ avatar_jobs = "none"
        /\ \A f \in Files : fs[f] = Absent

\* C26: no normal is a quotient by zero, a vertex that is in no face has
\* exactly the zero normal, and so has a vertex whose face normals cancel or
\* whose faces are all degenerate.
NormalizationNeverDividesByZero ==
    mesh_data.returned =>
        \A i \in 1 .. Len(mesh_data.normals) :
            /\ mesh_data.normals[i].den2 > 0
            /\ ~InSomeFace(mesh_data.faces, i - 1)
                  => mesh_data.normals[i] = [num |-> <<0, 0, 0>>, den2 |-> 1]
            /\ FaceNormalSum(mesh_data.vertices, mesh_data.faces, i - 1)
                   = <<0, 0, 0>>
                  => mesh_data.normals[i] = [num |-> <<0, 0, 0>>, den2 |-> 1]

\* C26 witness: a mesh with a face and a vertex that is in no face.
IsolatedVertexWitness ==
    /\ mesh_data.returned
    /\ Len(mesh_data.faces) >= 1
    /\ \E i \in 1 .. Len(mesh_data.normals) :
          /\ ~InSomeFace(mesh_data.faces, i - 1)
          /\ mesh_data.normals[i].num = <<0, 0, 0>>

\* x rounded up to the next multiple of 4.
RoundUp4(x) == ((x + 3) \div 4) * 4

\* C27: the five bufferViews follow one another in the order positions,
\* normals, uvs, indices, texture: the first starts at 0, each later one at
\* the end of the one before it rounded up to a multiple of 4; their
\* byteLengths are 12, 12 and 8 bytes per vertex, normal and uv, 2 bytes per
\* index and the texture's size, which is each accessor's count times its
\* element size.
BufferViewsLaidOutInOrder ==
    glb.built =>
        LET v == glb.bufferViews
        IN /\ v[1].byteOffset = 0
           /\ \A i \in 2 .. 5 :
                 v[i].byteOffset
                    = RoundUp4(v[i - 1].byteOffset + v[i - 1].byteLength)
           /\ v[1].byteLength = 12 * Len(mesh_data.vertices)
           /\ v[2].byteLength = 12 * Len(mesh_data.normals)
           /\ v[3].byteLength = 8 * Len(mesh_data.uvs)
           /\ v[4].byteLength = 2 * 3 * Len(mesh_data.faces)
           /\ v[5].byteLength = fs["texture"]
           /\ v[1].byteLength = 12 * glb.accessors[1].count
           /\ v[2].byteLength = 12 * glb.accessors[2].count
           /\ v[3].byteLength = 8 * glb.accessors[3].count
           /\ v[4].byteLength = 2 * glb.accessors[4].count

\* C27 witness: a built GLB whose index section (one face, 6 bytes) needs
\* padding before the texture and whose sections all have content.
LaidOutInOrderWitness ==
    /\ glb.built
    /\ Len(mesh_data.vertices) >= 1
    /\ Len(mesh_data.normals) >= 1
    /\ Len(mesh_data.uvs) >= 1
    /\ Len(mesh_data.faces) = 1
    /\ glb.bufferViews[5].byteOffset
          > glb.bufferViews[4].byteOffset + glb.bufferViews[4].byteLength

\* The unsigned shorts read back from packed bytes, low byte first.
RECURSIVE UnpackUShorts(_)
UnpackUShorts(bytes) ==
    IF Len(bytes) < 2 THEN <<>>
    ELSE << bytes[1] + 256 * bytes[2] >>
         \o UnpackUShorts(SubSeq(bytes, 3, Len(bytes)))

\* Some face index exceeds 65535.
SomeIndexTooLarge ==
    \E i \in DOMAIN mesh_data.faces : \E j \in DOMAIN mesh_data.faces[i] :
        mesh_data.faces[i][j] > 65535

\* C28: no index is stored modulo 2^16: a call with a face index above 65535
\* raises before the output file is opened, leaving no GLB at the target
\* path, and the indices of every GLB that is built read back as the exact
\* face indices.
IndicesNeverTruncated ==
    /\ (SomeIndexTooLarge /\ pc # "glb_call")
          => /\ pc = "raised"
             /\ ~glb.built
             /\ fs["glb"] = Absent
    /\ glb.built
          => UnpackUShorts(glb.indices_data) = FlattenFaces(mesh_data.faces)

\* C28 witness: a call with an index of 65536 and a readable texture was
\* refused by struct.pack.
IndexTooLargeWitness ==
    /\ SomeIndexTooLarge
    /\ fs["texture"] # Absent
    /\ pc = "raised"
    /\ error = "struct.error"
    /\ Len(mesh_data.faces) >= 2

(***************************************************************************)
(* Concurrent avatar requests.                                             *)
(***************************************************************************)
\* What a request with these landmarks leaves behind when no other request
\* runs: no file and a failed job when a stage raises, else its three files
\* and a completed job.
RunAlone(lms) ==
    IF Len(lms) = 0 \/ EmptyCrop(CropBox(lms, ImageSize, ImageSize))
    THEN [files |-> [f \in Files |-> Absent], job |-> "failed"]
    ELSE [files |->
             [f \in Files |->
                 CASE f = "texture" -> TextureOfRequest(lms)
                   [] f = "glb" ->
                        GlbDataLen(BuildGlb(MeshOfRequest(lms),
                                            TextureOfRequest(lms)))
                   [] f = "thumb" -> SetMin(PngLengths)],
          job |-> "completed"]

FinishedAsAlone ==
    \A r \in DOMAIN reqs :
        reqs[r].pc \in { "done", "failed" } =>
            /\ \A f \in Files :
                  store[<<r, f>>] = RunAlone(reqs[r].landmarks).files[f]
            /\ jobs[r] = RunAlone(reqs[r].landmarks).job

OnlyOwnFilesAndJob ==
    \A r \in DOMAIN reqs :
        reqs'[r] = reqs[r] =>
            /\ jobs'[r] = jobs[r]
            /\ \A f \in Files : store'[<<r, f>>] = store[<<r, f>>]

\* C24: concurrent generate_avatar requests, interleaved in any order, each
\* write only the files named by their own avatar_id and only their own
\* avatar_jobs entry, and each ends with the files and the job record it
\* would have if it ran alone.
ConcurrentRequestsIndependent ==
    /\ []FinishedAsAlone
    /\ [][OnlyOwnFilesAndJob]_vars

\* C24 witness: two concurrent requests have ended, the first with its
\* files and a completed job, the second with a failed job.
ConcurrentRequestsWitness ==
    /\ DOMAIN reqs # {}
    /\ reqs[1].pc = "done"
    /\ reqs[2].pc = "failed"
    /\ jobs[1] = "completed"
    /\ jobs[2] = "failed"
    /\ store[<<1, "glb">>] > 0

(***************************************************************************)
(* Voice cloning jobs and voice resolution.                                *)
(***************************************************************************)
\* C29: every voice_cloning_jobs entry whose clone_voice request has returned
\* or raised has status "completed" or "failed", and it is "completed"
\* exactly when its voice_id is set and the user's mapping was set to it.
CloneJobsLeaveProcessing ==
    \A job_id \in DOMAIN voice_cloning_jobs :
        LET job == voice_cloning_jobs[job_id]
        IN job.request # "running" =>
              /\ job.status \in { "completed", "failed" }
              /\ job.status = "completed" <=>
                    /\ job.voice_id # NoVoice
                    /\ \E i \in DOMAIN history :
                          /\ history[i].op = "clone"
                          /\ history[i].user_id = job.user_id
                          /\ history[i].voice_id = job.voice_id

\* The provider answers after which a delete_user_voice request fails:
\* as the text has it, every answer but 200 and 404;
FailsUnless200Or404 == DeleteAnswers \ { "200", "404" }

\* and without the 2xx answers other than 200.
FailsUnless2xxOr404 == DeleteAnswers \ { "200", "204", "404" }

\* The entries of a history that set or remove the mapping of user u.
Effective(h, u, failing) ==
    { i \in DOMAIN h :
        /\ h[i].user_id = u
        /\ h[i].op = "clone" \/ h[i].answer \notin failing }

\* The voice_id of the user's most recent successful clone not followed by
\* a successful delete, or NoVoice.
MappedVoice(h, u, failing) ==
    LET eff == Effective(h, u, failing)
    IN IF eff = {} THEN NoVoice
       ELSE LET last == SetMax(eff)
            IN IF h[last].op = "clone" THEN h[last].voice_id ELSE NoVoice

\* The voice a TTS request is to speak with, given the requests before it.
ExpectedVoice(t, h, failing) ==
    IF t.request_voice_id # NoVoice THEN t.request_voice_id
    ELSE IF t.request_user_id # NoUser
            /\ MappedVoice(SubSeq(h, 1, t.after), t.request_user_id,
                           failing) # NoVoice
         THEN MappedVoice(SubSeq(h, 1, t.after), t.request_user_id, failing)
         ELSE NeutralVoice

VoiceResolution(failing) ==
    /\ \A u \in Users : user_voices[u] = MappedVoice(history, u, failing)
    /\ tts_voice # NoTts =>
          tts_voice.voice_id = ExpectedVoice(tts_voice, history, failing)

\* C30: a TTS request speaks with its own voice_id if it gives one, else
\* with the voice of its user's most recent successful clone not followed by
\* a successful delete, else with the neutral voice; a delete_user_voice
\* that fails (a transport error, or a provider status that is neither 2xx
\* nor 404) leaves the mapping unchanged.
VoiceResolvedFromHistory == VoiceResolution(FailsUnless2xxOr404)

\* C30 as the text has it: every provider status other than 200 and 404
\* makes the delete fail and leaves the mapping unchanged.
VoiceResolvedFailingUnless200Or404 == VoiceResolution(FailsUnless200Or404)

\* C30 witness: after a clone, a delete that failed with status 500 and a
\* delete answered 204, a TTS request of that user without a voice_id
\* speaks with the neutral voice.
VoiceResolvedWitness ==
    /\ Len(history) = 3
    /\ history[1].op = "clone"
    /\ history[2].op = "delete" /\ history[2].answer = "500"
    /\ history[3].op = "delete" /\ history[3].answer = "204"
    /\ tts_voice.request_user_id = history[1].user_id
    /\ tts_voice.request_voice_id = NoVoice
    /\ tts_voice.after = 3
    /\ tts_voice.voice_id = NeutralVoice

====
